---- MODULE Spec2Model ----
(***************************************************************************)
(* Model of the IoT gateway alarm engine (src/src/services/alarm_processor, *)
(* storage_service, models/alarm_state, models/alarm_rule).                 *)
(*                                                                          *)
(* Timestamps are whole seconds.  A value in minutes is kept as the exact   *)
(* rational n/60 and represented by its numerator n (see                    *)
(* get_violation_duration_minutes and duration_reached).                    *)
(* Python's None is NoneVal; a missing table row is NoRow.                  *)
(*                                                                          *)
(* Granularity: one step per access to shared state (a store transaction,   *)
(* a cache access under _data_lock, a queue operation, a callback call);    *)
(* the local computation that follows an access belongs to its step.  The   *)
(* clock read of _evaluate_alarm_rule is taken with the row read that       *)
(* follows it.  created_at, updated_at and acknowledge_time of a state row  *)
(* are left out: nothing here reads them.                                   *)
(*                                                                          *)
(* Specifications: Spec (one producer, no failures), SpecRestart (kills     *)
(* and restarts), SpecIngress (several transport workers inside             *)
(* process_sensor_data), SpecDelete (a rule is deleted while the service    *)
(* runs), SpecFault (store operations and the alarm callback may fail, and  *)
(* readings may lack a field or hold a non-number), SpecSiblings (two       *)
(* enabled rules on one device, with failures), SpecAck (an operator        *)
(* acknowledges alarms), SpecStop (the service is shut down), SpecAuthor    *)
(* (the authoring tool adds rules), SpecLive (Spec on fewer readings, with  *)
(* threads that keep being scheduled), SpecSelfShunt (a conditional rule    *)
(* whose shunt device is its own device), SpecTransport (the transport's    *)
(* message callback and its worker threads feed the processor).             *)
(***************************************************************************)
EXTENDS Integers, Sequences, FiniteSets, TLC

\* ------------------------------------------------------------------ bounds
\* the wall clock advances in steps of TickSeconds, up to MaxTicks steps
TickSeconds == 60
MaxTicks == 3
\* calls of process_sensor_data in one run
MaxItems == 3
\* Queue(maxsize=500) of the processor, scaled down
QueueMaxSize == 2
\* ThreadPoolExecutor(max_workers=20), scaled down
MaxWorkers == 2
\* process restarts in one run
MaxRestarts == 1
\* ingress worker threads of the transport that call process_sensor_data
MaxIngress == 2
\* store operations and callback calls that fail in one run
MaxFailures == 1
\* calls of delete_alarm_rule in one run
MaxDeletes == 1

\* --------------------------------------------------------------- constants
\* get_violation_duration_minutes divides seconds by 60.0
SecondsPerMinute == 60
\* defaults.shunt_freshness_seconds of the design; the source has no such bound
ShuntFreshnessSeconds == 120

NoneVal == 0 - 1
\* a value that is not a number (a json string): comparing it raises TypeError
NotANumber == 0 - 2

Devices == {"d1", "d2"}
RuleIds == {"R1", "R2", "R3", "R4", "R6"}
\* row order of the alarm_rules table
RuleOrder == <<"R1", "R2", "R3", "R4", "R6">>

\* The rules an operator may author: a simple rule and a disabled rule on d1, a
\* conditional rule on d2 whose shunt is the "current" field of d1 (shapes of
\* sample_rules_script.create_sample_rules), and a second simple rule on d1
\* that watches "current".  R6 is a conditional rule on d1 whose shunt is the
\* "current" field of d1 itself (temp_conditional_device_i of the sample
\* rules).  Which of them are in the alarm_rules table is state.
Rules ==
  [r \in RuleIds |->
     IF r = "R1" THEN
       [rule_id |-> "R1", device_id |-> "d1", alarm_type |-> "simple_threshold",
        sensor_field |-> "temperature", threshold_value |-> 30,
        comparison_operator |-> ">", duration_minutes |-> 1, enabled |-> TRUE,
        shunt_device_id |-> "none", shunt_field |-> "none",
        shunt_value |-> NoneVal, shunt_operator |-> "none"]
     ELSE IF r = "R2" THEN
       [rule_id |-> "R2", device_id |-> "d2", alarm_type |-> "conditional_threshold",
        sensor_field |-> "temperature", threshold_value |-> 28,
        comparison_operator |-> ">", duration_minutes |-> 1, enabled |-> TRUE,
        shunt_device_id |-> "d1", shunt_field |-> "current",
        shunt_value |-> 0, shunt_operator |-> ">"]
     ELSE IF r = "R3" THEN
       [rule_id |-> "R3", device_id |-> "d1", alarm_type |-> "simple_threshold",
        sensor_field |-> "temperature", threshold_value |-> 30,
        comparison_operator |-> ">", duration_minutes |-> 1, enabled |-> FALSE,
        shunt_device_id |-> "none", shunt_field |-> "none",
        shunt_value |-> NoneVal, shunt_operator |-> "none"]
     ELSE IF r = "R4" THEN
       [rule_id |-> "R4", device_id |-> "d1", alarm_type |-> "simple_threshold",
        sensor_field |-> "current", threshold_value |-> 0,
        comparison_operator |-> ">", duration_minutes |-> 1, enabled |-> TRUE,
        shunt_device_id |-> "none", shunt_field |-> "none",
        shunt_value |-> NoneVal, shunt_operator |-> "none"]
     ELSE
       [rule_id |-> "R6", device_id |-> "d1", alarm_type |-> "conditional_threshold",
        sensor_field |-> "temperature", threshold_value |-> 28,
        comparison_operator |-> ">", duration_minutes |-> 1, enabled |-> TRUE,
        shunt_device_id |-> "d1", shunt_field |-> "current",
        shunt_value |-> 0, shunt_operator |-> ">"]]

\* the rows of the alarm_rules table of the plain deployment, and of one with
\* two enabled rules on d1
BaseRules == {"R1", "R2", "R3"}
SiblingRules == {"R1", "R3", "R4"}
\* and of a deployment whose one rule has its own device as shunt device
SelfShuntRules == {"R6"}

\* decoded payloads the transport delivers: (device, fields)
Payloads ==
  { [device_id |-> "d1", temperature |-> 32, current |-> 1],
    [device_id |-> "d1", temperature |-> 25, current |-> 0],
    [device_id |-> "d1", temperature |-> 32, current |-> NoneVal],
    [device_id |-> "d2", temperature |-> 32, current |-> NoneVal] }

\* dict.get(field)
Field(data, f) == IF f = "temperature" THEN data.temperature ELSE data.current

\* ------------------------------------------------------------------- state
VARIABLES
  now,               \* datetime.now().timestamp()
  running,           \* AlarmProcessor._running
  device_data,       \* AlarmProcessor._device_data, the telemetry cache
  processing_queue,  \* AlarmProcessor._processing_queue
  executor_queue,    \* work items submitted to the ThreadPoolExecutor, not yet started
  workers,           \* the pool threads, each running _process_device_alarms
  alarm_states,      \* table alarm_states
  alarm_history,     \* table alarm_history
  emitted,           \* the alarms the alarm callback has delivered, in order
  nItems,            \* calls of process_sensor_data so far
  nAccepted,         \* items accepted into the intake queue so far
  epoch,             \* process restarts so far
  carried,           \* rows that survived the last restart and were not rewritten since
  lastEval,          \* the evaluation the last step ended, if it ended one
  alarm_rules,       \* table alarm_rules: the rule_ids that have a row
  ingress,           \* the transport's worker threads, each inside process_sensor_data
  nFailures,         \* failed store operations and callback calls so far
  deleted,           \* the rule_ids delete_alarm_rule has been called with
  recorded,          \* the episodes a state row has been saved as triggered for
  rule_data,         \* table alarm_rules as the authoring tool writes it: rule_id -> rule
  lastAdd,           \* the last add-simple / add-conditional call and its result
  shutdown,          \* how far AlarmService._stop_services has come
  evals,             \* per accepted item: its device and the evaluations it has had
  message_queue,     \* MQTTService.message_queue: (topic, payload) pairs not yet taken
  delivered          \* the messages the transport has delivered to _on_message, in order

vars == <<now, running, device_data, processing_queue, executor_queue, workers,
          alarm_states, alarm_history, emitted, nItems, nAccepted, epoch,
          carried, lastEval, alarm_rules, ingress, nFailures, deleted, recorded,
          rule_data, lastAdd, shutdown, evals, message_queue, delivered>>

\* ---------------------------------------------------------- AlarmState model
NoRow ==
  [status |-> "norow", violation_start |-> NoneVal, last_violation |-> NoneVal,
   trigger_time |-> NoneVal, violation_count |-> 0, last_value |-> NoneVal,
   last_shunt_value |-> NoneVal]

\* AlarmState(rule_id, device_id, status=INACTIVE)
NewAlarmState ==
  [status |-> "inactive", violation_start |-> NoneVal, last_violation |-> NoneVal,
   trigger_time |-> NoneVal, violation_count |-> 0, last_value |-> NoneVal,
   last_shunt_value |-> NoneVal]

is_violation_active(s) == s.status \in {"active", "triggered"}

start_violation(s, timestamp, value, shunt_value) ==
  [s EXCEPT
     !.violation_start = IF s.status = "inactive" THEN timestamp ELSE @,
     !.status = IF s.status = "inactive" THEN "active" ELSE @,
     !.last_violation = timestamp,
     !.violation_count = @ + 1,
     !.last_value = value,
     !.last_shunt_value = IF shunt_value # NoneVal THEN shunt_value ELSE @]

clear_violation_keep_count(s) ==
  [s EXCEPT !.status = "inactive", !.violation_start = NoneVal,
            !.last_violation = NoneVal]

clear_violation_keep_start(s) ==
  [s EXCEPT !.status = "inactive", !.last_violation = NoneVal,
            !.violation_count = 0]

clear_violation(s) ==
  [s EXCEPT !.status = "inactive", !.violation_start = NoneVal,
            !.last_violation = NoneVal, !.violation_count = 0]

trigger_alarm_without_time(s, timestamp) == [s EXCEPT !.status = "triggered"]

trigger_alarm(s, timestamp) ==
  [s EXCEPT !.status = "triggered", !.trigger_time = timestamp]

acknowledge_alarm(s, timestamp) == [s EXCEPT !.status = "acknowledged"]

\* (current_timestamp - violation_start) / 60.0, as the numerator of n/60
get_violation_duration_minutes(s, current_timestamp) ==
  IF s.violation_start = NoneVal THEN 0
  ELSE current_timestamp - s.violation_start

\* -------------------------------------------------------------- the evaluator
evaluate_condition(value, threshold, operator) ==
  CASE value = NotANumber -> FALSE
    [] operator = ">"  -> value > threshold
    [] operator = "<"  -> value < threshold
    [] operator = ">=" -> value >= threshold
    [] operator = "<=" -> value <= threshold
    [] operator = "==" -> value = threshold
    [] operator = "!=" -> value # threshold
    [] OTHER -> FALSE

\* the telemetry cache entry of a device: absent, or the fields plus last_update
NoEntry ==
  [present |-> FALSE, temperature |-> NoneVal, current |-> NoneVal,
   last_update |-> NoneVal]

\* (condition_met, shunt_value) of _evaluate_shunt_condition; seen records which
\* branch answered and age how old the entry was (for the claims only)
evaluate_shunt_condition_missing_ok(rule, cache, at) ==
  LET shunt_data == cache[rule.shunt_device_id]
      shunt_value == Field(shunt_data, rule.shunt_field)
  IN  IF ~shunt_data.present
        THEN [met |-> TRUE, value |-> NoneVal, seen |-> "absent", age |-> 0]
      ELSE IF shunt_value = NoneVal
        THEN [met |-> TRUE, value |-> NoneVal, seen |-> "nofield",
              age |-> at - shunt_data.last_update]
      ELSE [met |-> evaluate_condition(shunt_value, rule.shunt_value, rule.shunt_operator),
            value |-> shunt_value, seen |-> "value",
            age |-> at - shunt_data.last_update]

evaluate_shunt_condition(rule, cache, at) ==
  LET shunt_data == cache[rule.shunt_device_id]
      shunt_value == Field(shunt_data, rule.shunt_field)
  IN  IF ~shunt_data.present
        THEN [met |-> FALSE, value |-> NoneVal, seen |-> "absent", age |-> 0]
      ELSE IF shunt_value = NoneVal
        THEN [met |-> FALSE, value |-> NoneVal, seen |-> "nofield",
              age |-> at - shunt_data.last_update]
      ELSE [met |-> evaluate_condition(shunt_value, rule.shunt_value, rule.shunt_operator),
            value |-> shunt_value, seen |-> "value",
            age |-> at - shunt_data.last_update]

sensor_never_missing(sensor_value) == FALSE

\* lines 103-106: data.get(rule.sensor_field) is None
sensor_missing(sensor_value) == sensor_value = NoneVal

\* violation_duration >= rule.duration_minutes, on the numerators of n/60
duration_reached_strict(violation_duration, duration_minutes) ==
  violation_duration > duration_minutes * SecondsPerMinute

duration_reached_always(violation_duration, duration_minutes) == TRUE

duration_reached(violation_duration, duration_minutes) ==
  violation_duration >= duration_minutes * SecondsPerMinute

\* an evaluator that fires whenever the duration is reached, triggered or not
apply_condition_refire(rule, state, condition_violated, current_time, sensor_value, shunt_value) ==
  IF condition_violated THEN
    LET s1 == IF ~is_violation_active(state)
                THEN start_violation(state, current_time, sensor_value, shunt_value)
                ELSE [state EXCEPT
                        !.last_violation = current_time,
                        !.last_value = sensor_value,
                        !.last_shunt_value =
                           IF shunt_value # NoneVal THEN shunt_value ELSE @]
        violation_duration == get_violation_duration_minutes(s1, current_time)
        fire == duration_reached(violation_duration, rule.duration_minutes)
    IN  [st |-> IF fire THEN trigger_alarm(s1, current_time) ELSE s1, fire |-> fire]
  ELSE
    [st |-> IF is_violation_active(state) THEN clear_violation(state) ELSE state,
     fire |-> FALSE]

\* _evaluate_alarm_rule from "if condition_violated" to the trigger decision:
\* the new in-memory state and whether the alarm fires
apply_condition(rule, state, condition_violated, current_time, sensor_value, shunt_value) ==
  IF condition_violated THEN
    LET s1 == IF ~is_violation_active(state)
                THEN start_violation(state, current_time, sensor_value, shunt_value)
                ELSE [state EXCEPT
                        !.last_violation = current_time,
                        !.last_value = sensor_value,
                        !.last_shunt_value =
                           IF shunt_value # NoneVal THEN shunt_value ELSE @]
        violation_duration == get_violation_duration_minutes(s1, current_time)
        fire == duration_reached(violation_duration, rule.duration_minutes)
                /\ s1.status # "triggered"
    IN  [st |-> IF fire THEN trigger_alarm(s1, current_time) ELSE s1, fire |-> fire]
  ELSE
    [st |-> IF is_violation_active(state) THEN clear_violation(state) ELSE state,
     fire |-> FALSE]

\* the alarm payload; violation_start is carried along to name the episode
create_alarm_data(rule, state, at) ==
  [rule_id |-> rule.rule_id, device_id |-> rule.device_id,
   duration_minutes |-> rule.duration_minutes,
   violation_duration |-> get_violation_duration_minutes(state, at),
   trigger_time |-> state.trigger_time,
   violation_start |-> state.violation_start]

\* ------------------------------------------------------------------ the store
get_all_alarm_rules_of_any_device(device_id) ==
  SelectSeq(RuleOrder, LAMBDA r : r \in alarm_rules /\ Rules[r].enabled)

get_all_alarm_rules(device_id) ==
  SelectSeq(RuleOrder,
            LAMBDA r : /\ r \in alarm_rules
                       /\ Rules[r].device_id = device_id /\ Rules[r].enabled)

all_rules_of_device(device_id) ==
  SelectSeq(RuleOrder,
            LAMBDA r : r \in alarm_rules /\ Rules[r].device_id = device_id)

\* the rules _process_device_alarms evaluates for an item: the enabled rows of
\* the device, minus those whose enabled attribute is false
rules_to_evaluate(device_id) ==
  SelectSeq(get_all_alarm_rules(device_id), LAMBDA r : Rules[r].enabled)

\* get_alarm_state, and the fresh inactive state the evaluator builds when there
\* is no row
get_alarm_state(table, rule_id) == table[rule_id]

state_or_new(row) == IF row = NoRow THEN NewAlarmState ELSE row

\* get_alarm_rule: the rule of the row, or None
NoRule == [rule_id |-> "none"]

get_alarm_rule(table, rule_id) == IF rule_id \in table THEN Rules[rule_id] ELSE NoRule

\* the two DELETE statements of delete_alarm_rule
delete_rule_row(table, rule_id) == table \ {rule_id}

keep_state_row(table, rule_id) == table

delete_state_row(table, rule_id) == [table EXCEPT ![rule_id] = NoRow]

\* opening the database of a previous run: CREATE TABLE IF NOT EXISTS keeps the rows
create_database_fresh(table) == [r \in DOMAIN table |-> NoRow]

create_database(table) == table

\* ---------------------------------------------------------- the authoring tool
\* the rule_ids an operator may give to add-simple and add-conditional
AuthoredIds == {"", "R5"}

\* the members of ComparisonOperator; ComparisonOperator(x) raises ValueError
\* for any other x
ComparisonOperators == {">", "<", ">=", "<=", "==", "!="}

\* bool(x) of a string argument: None and the empty string are false
Truthy(x) == x \notin {"", "none"}

validate_without_shunt(rule) ==
  /\ Truthy(rule.rule_id) /\ Truthy(rule.device_id) /\ Truthy(rule.sensor_field)
  /\ rule.duration_minutes > 0

\* AlarmRule.validate
validate(rule) ==
  /\ Truthy(rule.rule_id) /\ Truthy(rule.device_id) /\ Truthy(rule.sensor_field)
  /\ rule.duration_minutes > 0
  /\ rule.alarm_type = "conditional_threshold" =>
       /\ Truthy(rule.shunt_device_id) /\ Truthy(rule.shunt_field)
       /\ rule.shunt_value # NoneVal /\ Truthy(rule.shunt_operator)

\* save_alarm_rule: INSERT OR REPLACE of the row of rule.rule_id
save_alarm_rule(table, rule) == [table EXCEPT ![rule.rule_id] = rule]

NoAdd == [called |-> FALSE, rule |-> NoRule, result |-> FALSE]

\* ----------------------------------------------------------------- pool tasks
NoItem == [device_id |-> "none", temperature |-> NoneVal, current |-> NoneVal, seq |-> 0]

\* a pool thread: idle, or inside _process_device_alarms(item) with todo the rules
\* still to evaluate (the head is the one being evaluated) and the locals of
\* _evaluate_alarm_rule
IdleTask ==
  [pc |-> "idle", item |-> NoItem, todo |-> <<>>, ct |-> NoneVal,
   pre |-> NoRow, st |-> NoRow, shunt_value |-> NoneVal, cond |-> FALSE,
   seen |-> "n/a", age |-> 0, emits |-> 0, hists |-> 0, kept |-> NoRow,
   failed |-> "none", attempts |-> 0]

NoEval ==
  [rule_id |-> "none", seq |-> 0, epoch |-> 0, sensor |-> NoneVal, ct |-> NoneVal,
   pre |-> NoRow, cond |-> FALSE, seen |-> "n/a", age |-> 0, emits |-> 0,
   hists |-> 0, kept |-> NoRow, failed |-> "none", before |-> NoRow,
   after |-> NoRow, attempts |-> 0, shunt_value |-> NoneVal, item |-> NoItem]

\* what ends an evaluation leaves behind, for the claims: the row read (pre), the
\* row in the table just before (before) and just after (after) its last step,
\* how often the store operation that failed was tried (attempts), the shunt
\* value read from the cache and the work item
EvalRecord(t, sensor, before, after) ==
  [rule_id |-> Head(t.todo), seq |-> t.item.seq, epoch |-> epoch, sensor |-> sensor,
   ct |-> t.ct, pre |-> t.pre, cond |-> t.cond, seen |-> t.seen, age |-> t.age,
   emits |-> t.emits, hists |-> t.hists, kept |-> t.kept, failed |-> t.failed,
   before |-> before, after |-> after, attempts |-> t.attempts,
   shunt_value |-> t.shunt_value, item |-> t.item]

AbortTask(t) == IdleTask

\* the for loop of _process_device_alarms moves on to the next rule, or the task ends
NextRule(t) ==
  IF Len(t.todo) > 1
    THEN [IdleTask EXCEPT !.pc = "get", !.item = t.item, !.todo = Tail(t.todo)]
    ELSE IdleTask

\* the locals after the condition is known: the state to save and the next step
Decided(t, rule, condition_violated, sensor_value, shunt) ==
  LET d == apply_condition(rule, state_or_new(t.pre), condition_violated, t.ct,
                           sensor_value, shunt.value)
  IN  [t EXCEPT !.pc = IF d.fire THEN "publish" ELSE "save",
                !.st = d.st, !.cond = condition_violated,
                !.shunt_value = shunt.value, !.seen = shunt.seen, !.age = shunt.age]

NoShunt == [met |-> TRUE, value |-> NoneVal, seen |-> "n/a", age |-> 0]

\* a transport worker thread: idle, or inside process_sensor_data(item) before
\* the cache update ("cache"), before the full() test ("full") or before the
\* put ("put"); topic is the topic of the message it took from message_queue
IdleIngress == [pc |-> "idle", item |-> NoItem, topic |-> <<>>]

\* the violation episode a state row or an alarm payload belongs to
Episode(rule_id, s) ==
  [rule_id |-> rule_id, violation_start |-> s.violation_start,
   trigger_time |-> s.trigger_time]

\* Queue.full()
queue_full(q) == Len(q) >= QueueMaxSize

put_always(q, item) == Append(q, item)

\* lines 62-65 of process_sensor_data: the item is queued unless the queue is
\* full, and dropped otherwise
put_unless_full(q, item) == IF queue_full(q) THEN q ELSE Append(q, item)

\* the evaluations an accepted item has had: how often _evaluate_alarm_rule
\* has returned for it, per rule
NoEvals == [device_id |-> "none", n |-> [r \in RuleIds |-> 0]]

Accepted(e, seq, device_id) == [e EXCEPT ![seq] = [NoEvals EXCEPT !.device_id = device_id]]

Counted(e, rec) ==
  IF rec.rule_id = "none" THEN e
  ELSE [e EXCEPT ![rec.seq].n[rec.rule_id] = @ + 1]

LeastIdle(w) ==
  /\ workers[w].pc = "idle"
  /\ \A v \in 1..MaxWorkers : v < w => workers[v].pc # "idle"

\* --------------------------------------------------------------------- actions
InitWith(rules) ==
  /\ alarm_rules = rules
  /\ ingress = [i \in 1..MaxIngress |-> IdleIngress]
  /\ nFailures = 0
  /\ deleted = {}
  /\ recorded = {}
  /\ rule_data = [id \in AuthoredIds |-> NoRule]
  /\ lastAdd = NoAdd
  /\ shutdown = "no"
  /\ evals = [k \in 1..MaxItems |-> NoEvals]
  /\ message_queue = <<>>
  /\ delivered = <<>>
  /\ now = 0
  /\ running = FALSE
  /\ device_data = [d \in Devices |-> NoEntry]
  /\ processing_queue = <<>>
  /\ executor_queue = <<>>
  /\ workers = [w \in 1..MaxWorkers |-> IdleTask]
  /\ alarm_states = [r \in RuleIds |-> NoRow]
  /\ alarm_history = <<>>
  /\ emitted = <<>>
  /\ nItems = 0
  /\ nAccepted = 0
  /\ epoch = 0
  /\ carried = [r \in RuleIds |-> NoRow]
  /\ lastEval = NoEval

\* a new process on an empty database into which the rules were authored
Init == InitWith(BaseRules)

\* the wall clock advances
Tick ==
  /\ now < MaxTicks * TickSeconds
  /\ now' = now + TickSeconds
  /\ UNCHANGED <<running, device_data, processing_queue, executor_queue, workers,
                 alarm_states, alarm_history, emitted, nItems, nAccepted, epoch,
                 carried>>
  /\ lastEval' = NoEval
  /\ UNCHANGED <<alarm_rules, ingress, nFailures, deleted, recorded>>
  /\ UNCHANGED <<rule_data, message_queue, delivered, lastAdd, shutdown, evals>>

\* AlarmProcessor.start
Start ==
  /\ ~running
  /\ shutdown = "no"
  /\ running' = TRUE
  /\ lastEval' = NoEval
  /\ UNCHANGED <<now, device_data, processing_queue, executor_queue, workers,
                 alarm_states, alarm_history, emitted, nItems, nAccepted, epoch,
                 carried>>
  /\ UNCHANGED <<alarm_rules, ingress, nFailures, deleted, recorded>>
  /\ UNCHANGED <<rule_data, message_queue, delivered, lastAdd, shutdown, evals>>

\* AlarmProcessor.process_sensor_data(device_id, data): the cache entry is
\* replaced, then the item is queued unless the queue is full
process_sensor_data(p) ==
  /\ running
  /\ nItems < MaxItems
  /\ nItems' = nItems + 1
  /\ device_data' = [device_data EXCEPT ![p.device_id] =
        [present |-> TRUE, temperature |-> p.temperature, current |-> p.current,
         last_update |-> now]]
  /\ processing_queue' = put_unless_full(processing_queue,
        [device_id |-> p.device_id, temperature |-> p.temperature,
         current |-> p.current, seq |-> nAccepted + 1])
  /\ nAccepted' = IF queue_full(processing_queue) THEN nAccepted ELSE nAccepted + 1
  /\ lastEval' = NoEval
  /\ UNCHANGED <<now, running, executor_queue, workers, alarm_states,
                 alarm_history, emitted, epoch, carried>>
  /\ UNCHANGED <<alarm_rules, ingress, nFailures, deleted, recorded>>
  /\ UNCHANGED <<rule_data, message_queue, delivered, lastAdd, shutdown>>
  /\ evals' = IF queue_full(processing_queue) THEN evals
              ELSE Accepted(evals, nAccepted + 1, p.device_id)

\* one round of AlarmProcessor._background_processor: the head of the intake
\* queue is submitted to the pool
background_processor ==
  /\ running
  /\ processing_queue # <<>>
  /\ processing_queue' = Tail(processing_queue)
  /\ executor_queue' = Append(executor_queue, Head(processing_queue))
  /\ lastEval' = NoEval
  /\ UNCHANGED <<now, running, device_data, workers, alarm_states, alarm_history,
                 emitted, nItems, nAccepted, epoch, carried>>
  /\ UNCHANGED <<alarm_rules, ingress, nFailures, deleted, recorded>>
  /\ UNCHANGED <<rule_data, message_queue, delivered, lastAdd, shutdown, evals>>

\* a free pool thread starts _process_device_alarms on the oldest submitted item
\* and reads the rules of the device
process_device_alarms(w) ==
  /\ LeastIdle(w)
  /\ executor_queue # <<>>
  /\ executor_queue' = Tail(executor_queue)
  /\ LET item == Head(executor_queue)
         rules == rules_to_evaluate(item.device_id)
     IN  workers' = [workers EXCEPT ![w] =
            IF rules = <<>> THEN IdleTask
            ELSE [IdleTask EXCEPT !.pc = "get", !.item = item, !.todo = rules]]
  /\ lastEval' = NoEval
  /\ UNCHANGED <<now, running, device_data, processing_queue, alarm_states,
                 alarm_history, emitted, nItems, nAccepted, epoch, carried>>
  /\ UNCHANGED <<alarm_rules, ingress, nFailures, deleted, recorded>>
  /\ UNCHANGED <<rule_data, message_queue, delivered, lastAdd, shutdown, evals>>

\* _evaluate_alarm_rule, lines 91-111: the clock and the state row are read, then
\* the sensor value; a missing value ends the evaluation, a simple rule is decided.
\* A read that fails inside get_alarm_state is logged there and returns None.
EvalRead(w, ok) ==
  LET t == workers[w]
      rule == Rules[Head(t.todo)]
      sensor_value == Field(t.item, rule.sensor_field)
      t1 == [t EXCEPT !.ct = now,
                      !.pre = IF ok THEN get_alarm_state(alarm_states, rule.rule_id)
                              ELSE NoRow,
                      !.kept = carried[rule.rule_id],
                      !.failed = IF ok THEN @ ELSE "get",
                      !.attempts = IF ok THEN @ ELSE 1]
  IN  /\ t.pc = "get"
      /\ IF sensor_missing(sensor_value)
           THEN /\ workers' = [workers EXCEPT ![w] = NextRule(t)]
                /\ lastEval' = EvalRecord(t1, sensor_value,
                                          alarm_states[rule.rule_id],
                                          alarm_states[rule.rule_id])
         ELSE IF rule.alarm_type = "conditional_threshold"
           THEN /\ workers' = [workers EXCEPT ![w] = [t1 EXCEPT !.pc = "shunt"]]
                /\ lastEval' = NoEval
         ELSE /\ workers' = [workers EXCEPT ![w] =
                    Decided(t1, rule,
                            evaluate_condition(sensor_value, rule.threshold_value,
                                               rule.comparison_operator),
                            sensor_value, NoShunt)]
              /\ lastEval' = NoEval
      /\ UNCHANGED <<now, running, device_data, processing_queue, executor_queue,
                     alarm_states, alarm_history, emitted, nItems, nAccepted,
                     epoch, carried>>
      /\ UNCHANGED <<alarm_rules, ingress, deleted, recorded>>
      /\ UNCHANGED <<rule_data, message_queue, delivered, lastAdd, shutdown>>
      /\ evals' = Counted(evals, lastEval')

EvalGet(w) == EvalRead(w, TRUE) /\ UNCHANGED nFailures

\* _evaluate_alarm_rule, lines 117-139 of a conditional rule: the shunt entry is
\* read from the cache and the rule is decided
EvalShunt(w) ==
  LET t == workers[w]
      rule == Rules[Head(t.todo)]
      sensor_value == Field(t.item, rule.sensor_field)
      shunt == evaluate_shunt_condition(rule, device_data, now)
      primary_violated == evaluate_condition(sensor_value, rule.threshold_value,
                                             rule.comparison_operator)
  IN  /\ t.pc = "shunt"
      /\ workers' = [workers EXCEPT ![w] =
            Decided(t, rule, primary_violated /\ shunt.met, sensor_value, shunt)]
      /\ lastEval' = NoEval
      /\ UNCHANGED <<now, running, device_data, processing_queue, executor_queue,
                     alarm_states, alarm_history, emitted, nItems, nAccepted,
                     epoch, carried>>
      /\ UNCHANGED <<alarm_rules, ingress, nFailures, deleted, recorded>>
      /\ UNCHANGED <<rule_data, message_queue, delivered, lastAdd, shutdown, evals>>

\* _publish_alarm: the alarm callback is called with the payload
EvalPublish(w) ==
  LET t == workers[w]
      rule == Rules[Head(t.todo)]
  IN  /\ t.pc = "publish"
      /\ emitted' = Append(emitted, create_alarm_data(rule, t.st, now))
      /\ workers' = [workers EXCEPT ![w] = [t EXCEPT !.pc = "history", !.emits = @ + 1]]
      /\ lastEval' = NoEval
      /\ UNCHANGED <<now, running, device_data, processing_queue, executor_queue,
                     alarm_states, alarm_history, nItems, nAccepted, epoch,
                     carried>>
      /\ UNCHANGED <<alarm_rules, ingress, nFailures, deleted, recorded>>
      /\ UNCHANGED <<rule_data, message_queue, delivered, lastAdd, shutdown, evals>>

\* save_alarm_history: the payload is appended to the history table
EvalHistory(w) ==
  LET t == workers[w]
      rule == Rules[Head(t.todo)]
  IN  /\ t.pc = "history"
      /\ alarm_history' = Append(alarm_history, create_alarm_data(rule, t.st, now))
      /\ workers' = [workers EXCEPT ![w] = [t EXCEPT !.pc = "save", !.hists = @ + 1]]
      /\ lastEval' = NoEval
      /\ UNCHANGED <<now, running, device_data, processing_queue, executor_queue,
                     alarm_states, emitted, nItems, nAccepted, epoch, carried>>
      /\ UNCHANGED <<alarm_rules, ingress, nFailures, deleted, recorded>>
      /\ UNCHANGED <<rule_data, message_queue, delivered, lastAdd, shutdown, evals>>

\* save_alarm_state: the state row is replaced; the evaluation ends
EvalSave(w) ==
  LET t == workers[w]
      rule_id == Head(t.todo)
  IN  /\ t.pc = "save"
      /\ alarm_states' = [alarm_states EXCEPT ![rule_id] = t.st]
      /\ carried' = [carried EXCEPT ![rule_id] = NoRow]
      /\ lastEval' = EvalRecord(t, Field(t.item, Rules[rule_id].sensor_field),
                                alarm_states[rule_id], alarm_states'[rule_id])
      /\ workers' = [workers EXCEPT ![w] = NextRule(t)]
      /\ UNCHANGED <<now, running, device_data, processing_queue, executor_queue,
                     alarm_history, emitted, nItems, nAccepted, epoch>>
      /\ recorded' = IF t.st.status = "triggered"
                       THEN recorded \cup {Episode(rule_id, t.st)}
                       ELSE recorded
      /\ UNCHANGED <<alarm_rules, ingress, nFailures, deleted>>
      /\ UNCHANGED <<rule_data, message_queue, delivered, lastAdd, shutdown>>
      /\ evals' = Counted(evals, lastEval')

\* the process is killed and a new one is constructed on the same database:
\* memory (cache, queues, pool) is lost, the tables are what the store opens
Restart ==
  /\ epoch < MaxRestarts
  /\ epoch' = epoch + 1
  /\ running' = FALSE
  /\ device_data' = [d \in Devices |-> NoEntry]
  /\ processing_queue' = <<>>
  /\ executor_queue' = <<>>
  /\ workers' = [w \in 1..MaxWorkers |-> IdleTask]
  /\ alarm_states' = create_database(alarm_states)
  /\ carried' = alarm_states
  /\ lastEval' = NoEval
  /\ UNCHANGED <<now, alarm_history, emitted, nItems, nAccepted>>
  /\ ingress' = [i \in 1..MaxIngress |-> IdleIngress]
  /\ UNCHANGED <<alarm_rules, nFailures, deleted, recorded>>
  /\ shutdown' = "no"
  /\ message_queue' = <<>>
  /\ UNCHANGED <<rule_data, delivered, lastAdd, evals>>

Next ==
  \/ Tick
  \/ Start
  \/ \E p \in Payloads : process_sensor_data(p)
  \/ background_processor
  \/ \E w \in 1..MaxWorkers : process_device_alarms(w)
  \/ \E w \in 1..MaxWorkers : EvalGet(w)
  \/ \E w \in 1..MaxWorkers : EvalShunt(w)
  \/ \E w \in 1..MaxWorkers : EvalPublish(w)
  \/ \E w \in 1..MaxWorkers : EvalHistory(w)
  \/ \E w \in 1..MaxWorkers : EvalSave(w)

\* normal operation of one process
Spec == Init /\ [][Next]_vars

NextRestart ==
  \/ Next
  \/ Restart

\* operation across kills and restarts of the process on one database
SpecRestart == Init /\ [][NextRestart]_vars

\* ------------------------------------------------------ failing operations
\* Every store method catches its exception, logs it and returns None or False
\* (storage_service.py 172-174, 189-191, 224-226), and _publish_alarm catches
\* what the callback raises (250); the evaluator looks at none of the results.
CanFail == nFailures < MaxFailures

rollback_on_publish_error(t) ==
  [t EXCEPT !.pc = "save", !.failed = "publish", !.st = state_or_new(t.pre)]

\* _publish_alarm, lines 249-250: the exception is logged and the evaluation
\* goes on to save_alarm_history with the triggered state
after_publish_error(t) == [t EXCEPT !.pc = "history", !.failed = "publish"]

\* get_alarm_state fails: the evaluator gets None and goes on with a new state
EvalGetFail(w) ==
  /\ CanFail
  /\ nFailures' = nFailures + 1
  /\ EvalRead(w, FALSE)

\* the alarm callback raises, or finds the transport disconnected: no alarm
\* leaves the service
EvalPublishFail(w) ==
  LET t == workers[w]
  IN  /\ CanFail
      /\ t.pc = "publish"
      /\ nFailures' = nFailures + 1
      /\ workers' = [workers EXCEPT ![w] = after_publish_error(t)]
      /\ lastEval' = NoEval
      /\ UNCHANGED <<now, running, device_data, processing_queue, executor_queue,
                     alarm_states, alarm_history, emitted, nItems, nAccepted,
                     epoch, carried, alarm_rules, ingress, deleted, recorded>>
      /\ UNCHANGED <<rule_data, message_queue, delivered, lastAdd, shutdown, evals>>

\* save_alarm_history fails and returns False
EvalHistoryFail(w) ==
  LET t == workers[w]
  IN  /\ CanFail
      /\ t.pc = "history"
      /\ nFailures' = nFailures + 1
      /\ workers' = [workers EXCEPT ![w] = [t EXCEPT !.pc = "save",
                                                     !.failed = "history",
                                                     !.attempts = 1]]
      /\ lastEval' = NoEval
      /\ UNCHANGED <<now, running, device_data, processing_queue, executor_queue,
                     alarm_states, alarm_history, emitted, nItems, nAccepted,
                     epoch, carried, alarm_rules, ingress, deleted, recorded>>
      /\ UNCHANGED <<rule_data, message_queue, delivered, lastAdd, shutdown, evals>>

\* save_alarm_state fails and returns False: the row stays, the evaluation ends
EvalSaveFail(w) ==
  LET t == workers[w]
      rule_id == Head(t.todo)
      t1 == [t EXCEPT !.failed = "save", !.attempts = 1]
  IN  /\ CanFail
      /\ t.pc = "save"
      /\ nFailures' = nFailures + 1
      /\ lastEval' = EvalRecord(t1, Field(t.item, Rules[rule_id].sensor_field),
                                alarm_states[rule_id], alarm_states[rule_id])
      /\ workers' = [workers EXCEPT ![w] = NextRule(t)]
      /\ UNCHANGED <<now, running, device_data, processing_queue, executor_queue,
                     alarm_states, alarm_history, emitted, nItems, nAccepted,
                     epoch, carried, alarm_rules, ingress, deleted, recorded>>
      /\ UNCHANGED <<rule_data, message_queue, delivered, lastAdd, shutdown>>
      /\ evals' = Counted(evals, lastEval')

\* readings of d1 alone: violating, normal, without the temperature field, and
\* with a temperature that is not a number
FaultPayloads ==
  { [device_id |-> "d1", temperature |-> 32, current |-> 1],
    [device_id |-> "d1", temperature |-> 25, current |-> 0],
    [device_id |-> "d1", temperature |-> NoneVal, current |-> 1],
    [device_id |-> "d1", temperature |-> NotANumber, current |-> 1] }

NextFault ==
  \/ Tick
  \/ Start
  \/ \E p \in FaultPayloads : process_sensor_data(p)
  \/ background_processor
  \/ \E w \in 1..MaxWorkers : process_device_alarms(w)
  \/ \E w \in 1..MaxWorkers : EvalGet(w)
  \/ \E w \in 1..MaxWorkers : EvalPublish(w)
  \/ \E w \in 1..MaxWorkers : EvalHistory(w)
  \/ \E w \in 1..MaxWorkers : EvalSave(w)
  \/ \E w \in 1..MaxWorkers : EvalGetFail(w)
  \/ \E w \in 1..MaxWorkers : EvalPublishFail(w)
  \/ \E w \in 1..MaxWorkers : EvalHistoryFail(w)
  \/ \E w \in 1..MaxWorkers : EvalSaveFail(w)

\* operation on the readings of d1, with store operations and callback calls
\* that may fail
SpecFault == Init /\ [][NextFault]_vars

\* a deployment with two enabled rules on d1 (R1 and R4) and a pool of one
\* thread (max_workers = 1)
SiblingPayloads ==
  { [device_id |-> "d1", temperature |-> 32, current |-> 1],
    [device_id |-> "d1", temperature |-> 25, current |-> 0] }

SiblingWorkers == {1}

InitSiblings == InitWith(SiblingRules)

NextSiblings ==
  \/ Tick
  \/ Start
  \/ \E p \in SiblingPayloads : process_sensor_data(p)
  \/ background_processor
  \/ \E w \in SiblingWorkers : process_device_alarms(w)
  \/ \E w \in SiblingWorkers : EvalGet(w)
  \/ \E w \in SiblingWorkers : EvalPublish(w)
  \/ \E w \in SiblingWorkers : EvalHistory(w)
  \/ \E w \in SiblingWorkers : EvalSave(w)
  \/ \E w \in SiblingWorkers : EvalGetFail(w)
  \/ \E w \in SiblingWorkers : EvalPublishFail(w)
  \/ \E w \in SiblingWorkers : EvalHistoryFail(w)
  \/ \E w \in SiblingWorkers : EvalSaveFail(w)

\* failing operations while each item of d1 is evaluated against two rules
SpecSiblings == InitSiblings /\ [][NextSiblings]_vars

\* ------------------------------------------------- concurrent ingress workers
\* MQTTService._process_messages runs in several worker threads, each calling
\* data_callback = process_sensor_data.  The three accesses of
\* process_sensor_data are then separate steps.

\* lines 55-59: under _data_lock the cache entry of the device is replaced
process_sensor_data_cache(i, p) ==
  /\ running
  /\ nItems < MaxItems
  /\ ingress[i].pc = "idle"
  /\ \A j \in 1..MaxIngress : j < i => ingress[j].pc # "idle"
  /\ nItems' = nItems + 1
  /\ device_data' = [device_data EXCEPT ![p.device_id] =
        [present |-> TRUE, temperature |-> p.temperature, current |-> p.current,
         last_update |-> now]]
  /\ ingress' = [ingress EXCEPT ![i] =
        [pc |-> "full",
         item |-> [device_id |-> p.device_id, temperature |-> p.temperature,
                   current |-> p.current, seq |-> 0],
         topic |-> <<>>]]
  /\ lastEval' = NoEval
  /\ UNCHANGED <<now, running, processing_queue, executor_queue, workers,
                 alarm_states, alarm_history, emitted, nAccepted, epoch, carried,
                 alarm_rules, nFailures, deleted, recorded>>
  /\ UNCHANGED <<rule_data, message_queue, delivered, lastAdd, shutdown, evals>>

\* line 62: the full() test; a full queue drops the item (line 65)
process_sensor_data_full(i) ==
  /\ ingress[i].pc = "full"
  /\ ingress' = [ingress EXCEPT ![i] =
        IF queue_full(processing_queue) THEN IdleIngress ELSE [@ EXCEPT !.pc = "put"]]
  /\ lastEval' = NoEval
  /\ UNCHANGED <<now, running, device_data, processing_queue, executor_queue,
                 workers, alarm_states, alarm_history, emitted, nItems, nAccepted,
                 epoch, carried, alarm_rules, nFailures, deleted, recorded>>
  /\ UNCHANGED <<rule_data, message_queue, delivered, lastAdd, shutdown, evals>>

\* line 63: Queue.put(item) with block=True returns once the queue has a free
\* slot; until then the thread waits inside put
process_sensor_data_put(i) ==
  /\ ingress[i].pc = "put"
  /\ ~queue_full(processing_queue)
  /\ processing_queue' = Append(processing_queue,
        [ingress[i].item EXCEPT !.seq = nAccepted + 1])
  /\ nAccepted' = nAccepted + 1
  /\ ingress' = [ingress EXCEPT ![i] = IdleIngress]
  /\ lastEval' = NoEval
  /\ UNCHANGED <<now, running, device_data, executor_queue, workers, alarm_states,
                 alarm_history, emitted, nItems, epoch, carried, alarm_rules,
                 nFailures, deleted, recorded>>
  /\ UNCHANGED <<rule_data, message_queue, delivered, lastAdd, shutdown>>
  /\ evals' = Accepted(evals, nAccepted + 1, ingress[i].item.device_id)

\* the pool side of the processor: dispatcher and evaluations
Consume ==
  \/ background_processor
  \/ \E w \in 1..MaxWorkers : process_device_alarms(w)
  \/ \E w \in 1..MaxWorkers : EvalGet(w)
  \/ \E w \in 1..MaxWorkers : EvalShunt(w)
  \/ \E w \in 1..MaxWorkers : EvalPublish(w)
  \/ \E w \in 1..MaxWorkers : EvalHistory(w)
  \/ \E w \in 1..MaxWorkers : EvalSave(w)

NextIngress ==
  \/ Tick
  \/ Start
  \/ \E i \in 1..MaxIngress : \E p \in Payloads : process_sensor_data_cache(i, p)
  \/ \E i \in 1..MaxIngress : process_sensor_data_full(i)
  \/ \E i \in 1..MaxIngress : process_sensor_data_put(i)
  \/ Consume

\* operation with MaxIngress transport workers feeding the processor
SpecIngress == Init /\ [][NextIngress]_vars

\* --------------------------------------------------------------- the transport
\* messages the transport delivers in one run
MaxMessages == 2

\* Queue(maxsize=1000) of the transport
MessageQueueMaxSize == 1000

\* A topic is the sequence of its levels, what topic.split('/') returns.  The
\* subscription is the configured mqtt.subscribe_topic (main.py 117), so the
\* topics _on_message is called with are whatever that filter lets through:
\* the sensor topic, one with another third level, one with two levels only,
\* and one of another tree.
Topics ==
  { <<"sensors", "d1", "data">>,
    <<"sensors", "d1", "status">>,
    <<"sensors", "d1">>,
    <<"actuators", "d1", "data">> }

\* the decoded json payloads of the messages
Readings ==
  { [temperature |-> 32, current |-> 1],
    [temperature |-> 25, current |-> 0] }

\* MQTTService._extract_device_id: the second level of a topic that has at
\* least two levels and starts with "sensors", else None
extract_device_id(topic) ==
  IF Len(topic) >= 2 /\ topic[1] = "sensors" THEN topic[2] ELSE "none"

\* MQTTService._on_message: the message is queued unless message_queue is full
on_message(topic, data) ==
  LET msg == [topic |-> topic, temperature |-> data.temperature,
              current |-> data.current]
  IN  /\ running
      /\ Len(delivered) < MaxMessages
      /\ delivered' = Append(delivered, msg)
      /\ message_queue' = IF Len(message_queue) >= MessageQueueMaxSize
                             THEN message_queue
                             ELSE Append(message_queue, msg)
      /\ lastEval' = NoEval
      /\ UNCHANGED <<now, running, device_data, processing_queue, executor_queue,
                     workers, alarm_states, alarm_history, emitted, nItems,
                     nAccepted, epoch, carried, alarm_rules, ingress, nFailures,
                     deleted, recorded, rule_data, lastAdd, shutdown, evals>>

\* _process_messages, lines 79-87: a worker thread takes the oldest message,
\* decodes the payload and extracts the device id; without a device id the
\* message is dropped, with one the thread goes on to call data_callback
process_messages_get(i) ==
  LET msg == Head(message_queue)
      device_id == extract_device_id(msg.topic)
  IN  /\ ingress[i].pc = "idle"
      /\ \A j \in 1..MaxIngress : j < i => ingress[j].pc # "idle"
      /\ message_queue # <<>>
      /\ message_queue' = Tail(message_queue)
      /\ ingress' = [ingress EXCEPT ![i] =
            IF Truthy(device_id)
              THEN [pc |-> "cache",
                    item |-> [device_id |-> device_id, temperature |-> msg.temperature,
                              current |-> msg.current, seq |-> 0],
                    topic |-> msg.topic]
              ELSE IdleIngress]
      /\ lastEval' = NoEval
      /\ UNCHANGED <<now, running, device_data, processing_queue, executor_queue,
                     workers, alarm_states, alarm_history, emitted, nItems,
                     nAccepted, epoch, carried, alarm_rules, nFailures, deleted,
                     recorded, rule_data, lastAdd, shutdown, evals, delivered>>

\* line 88 and process_sensor_data lines 55-59: data_callback is called and
\* replaces the cache entry of the device under _data_lock
process_messages_callback(i) ==
  LET item == ingress[i].item
  IN  /\ ingress[i].pc = "cache"
      /\ nItems < MaxItems
      /\ nItems' = nItems + 1
      /\ device_data' = [device_data EXCEPT ![item.device_id] =
            [present |-> TRUE, temperature |-> item.temperature,
             current |-> item.current, last_update |-> now]]
      /\ ingress' = [ingress EXCEPT ![i].pc = "full"]
      /\ lastEval' = NoEval
      /\ UNCHANGED <<now, running, processing_queue, executor_queue, workers,
                     alarm_states, alarm_history, emitted, nAccepted, epoch,
                     carried, alarm_rules, nFailures, deleted, recorded,
                     rule_data, lastAdd, shutdown, evals, message_queue,
                     delivered>>

NextTransport ==
  \/ Tick
  \/ Start
  \/ \E topic \in Topics : \E data \in Readings : on_message(topic, data)
  \/ \E i \in 1..MaxIngress : process_messages_get(i)
  \/ \E i \in 1..MaxIngress : process_messages_callback(i)
  \/ \E i \in 1..MaxIngress : process_sensor_data_full(i)
  \/ \E i \in 1..MaxIngress : process_sensor_data_put(i)
  \/ background_processor
  \/ \E w \in 1..MaxWorkers : process_device_alarms(w)
  \/ \E w \in 1..MaxWorkers : EvalGet(w)
  \/ \E w \in 1..MaxWorkers : EvalPublish(w)
  \/ \E w \in 1..MaxWorkers : EvalHistory(w)
  \/ \E w \in 1..MaxWorkers : EvalSave(w)

\* operation from the transport's message callback on, with MaxIngress worker
\* threads that decode the messages and feed the processor
SpecTransport == Init /\ [][NextTransport]_vars

\* ------------------------------------------------------------------- progress
\* violating readings of d1 and of d2
LivePayloads ==
  { [device_id |-> "d1", temperature |-> 32, current |-> 1],
    [device_id |-> "d2", temperature |-> 32, current |-> NoneVal] }

NextLive ==
  \/ Tick
  \/ Start
  \/ \E p \in LivePayloads : process_sensor_data(p)
  \/ Consume

\* Normal operation of a process whose threads keep being scheduled: the
\* dispatcher thread and the pool threads are threads of a running process, so
\* whenever one of them has a step to take, a step of one of them is
\* eventually taken.  Nothing is asked of the clock or of the transport.
SpecLive == Init /\ [][NextLive]_vars /\ WF_vars(Consume)

\* ------------------------------------------------- shunt on the rule's device
\* readings of d1 with the machine on (current 1) and off (current 0)
SelfShuntPayloads ==
  { [device_id |-> "d1", temperature |-> 32, current |-> 1],
    [device_id |-> "d1", temperature |-> 32, current |-> 0],
    [device_id |-> "d1", temperature |-> 25, current |-> 1] }

InitSelfShunt == InitWith(SelfShuntRules)

NextSelfShunt ==
  \/ Tick
  \/ Start
  \/ \E p \in SelfShuntPayloads : process_sensor_data(p)
  \/ Consume

\* a deployment with the conditional rule R6, whose shunt device is the
\* rule's device
SpecSelfShunt == InitSelfShunt /\ [][NextSelfShunt]_vars

\* --------------------------------------------------------------- rule deletion
\* StorageService.delete_alarm_rule, called by the authoring tool on the database
\* of the running service: both DELETEs and the commit are one transaction
delete_alarm_rule(rule_id) ==
  /\ Cardinality(deleted) < MaxDeletes
  /\ rule_id \notin deleted
  /\ deleted' = deleted \cup {rule_id}
  /\ alarm_rules' = delete_rule_row(alarm_rules, rule_id)
  /\ alarm_states' = delete_state_row(alarm_states, rule_id)
  /\ carried' = [carried EXCEPT ![rule_id] = NoRow]
  /\ lastEval' = NoEval
  /\ UNCHANGED <<now, running, device_data, processing_queue, executor_queue,
                 workers, alarm_history, emitted, nItems, nAccepted, epoch,
                 ingress, nFailures, recorded>>
  /\ UNCHANGED <<rule_data, message_queue, delivered, lastAdd, shutdown, evals>>

\* the rule the operator deletes: the one with the richest state
DeletedRules == {"R1"}

NextDelete ==
  \/ Next
  \/ \E r \in DeletedRules : delete_alarm_rule(r)

\* normal operation while rules are deleted
SpecDelete == Init /\ [][NextDelete]_vars

\* ------------------------------------------------------------ acknowledgement
\* An operator acknowledges the alarm of a rule that has triggered: the state
\* row is loaded, AlarmState.acknowledge_alarm is applied and the row is saved.
\* (The repository has the method and the status but no caller; this is the
\* caller the status is reserved for.)
Acknowledge(rule_id) ==
  /\ rule_id \in alarm_rules
  /\ alarm_states[rule_id].status = "triggered"
  /\ alarm_states' = [alarm_states EXCEPT ![rule_id] = acknowledge_alarm(@, now)]
  /\ carried' = [carried EXCEPT ![rule_id] = NoRow]
  /\ lastEval' = NoEval
  /\ UNCHANGED <<now, running, device_data, processing_queue, executor_queue,
                 workers, alarm_history, emitted, nItems, nAccepted, epoch,
                 alarm_rules, ingress, nFailures, deleted, recorded, rule_data,
                 message_queue, delivered,
                 lastAdd, shutdown, evals>>

\* readings of d1: violating and normal
OneDevicePayloads ==
  { [device_id |-> "d1", temperature |-> 32, current |-> 1],
    [device_id |-> "d1", temperature |-> 25, current |-> 0] }

NextAck ==
  \/ Tick
  \/ Start
  \/ \E p \in OneDevicePayloads : process_sensor_data(p)
  \/ background_processor
  \/ \E w \in 1..MaxWorkers : process_device_alarms(w)
  \/ \E w \in 1..MaxWorkers : EvalGet(w)
  \/ \E w \in 1..MaxWorkers : EvalPublish(w)
  \/ \E w \in 1..MaxWorkers : EvalHistory(w)
  \/ \E w \in 1..MaxWorkers : EvalSave(w)
  \/ \E r \in RuleIds : Acknowledge(r)

\* operation on the readings of d1 while an operator acknowledges alarms
SpecAck == Init /\ [][NextAck]_vars

\* --------------------------------------------------------------------- shutdown
\* retention_days = 30 of cleanup_old_history, in seconds
RetentionSeconds == 30 * 24 * 60 * SecondsPerMinute

\* ThreadPoolExecutor.shutdown(wait=True, timeout=10), line 291: shutdown has no
\* parameter timeout, the call raises TypeError before it does anything, and
\* stop catches and logs it (295-296).  The pool is as it was: its threads go
\* on with their tasks and with the work items submitted before.
executor_shutdown(pool) == pool

\* a stop that leaves the _running flag set
stop_keeps_running ==
  /\ running
  /\ shutdown = "no"
  /\ shutdown' = "stopped"
  /\ lastEval' = NoEval
  /\ UNCHANGED <<now, running, device_data, processing_queue, executor_queue,
                 workers, alarm_states, alarm_history, emitted, nItems,
                 nAccepted, epoch, carried, alarm_rules, ingress, nFailures,
                 deleted, recorded, rule_data, message_queue, delivered, lastAdd, evals>>

\* AlarmService._stop_services up to the return of AlarmProcessor.stop: the
\* transport is disconnected (no further process_sensor_data), _running is
\* cleared, the dispatcher thread is joined, and the pool is shut down
stop ==
  /\ running
  /\ shutdown = "no"
  /\ running' = FALSE
  /\ workers' = executor_shutdown(workers)
  /\ shutdown' = "stopped"
  /\ lastEval' = NoEval
  /\ UNCHANGED <<now, device_data, processing_queue, executor_queue,
                 alarm_states, alarm_history, emitted, nItems, nAccepted, epoch,
                 carried, alarm_rules, ingress, nFailures, deleted, recorded,
                 rule_data, message_queue, delivered, lastAdd, evals>>

\* StorageService.cleanup_old_history, called by _stop_services after stop has
\* returned: the history records older than the retention time are deleted
cleanup_old_history ==
  /\ shutdown = "stopped"
  /\ shutdown' = "cleaned"
  /\ alarm_history' = SelectSeq(alarm_history,
        LAMBDA h : ~(h.trigger_time < now - RetentionSeconds))
  /\ lastEval' = NoEval
  /\ UNCHANGED <<now, running, device_data, processing_queue, executor_queue,
                 workers, alarm_states, emitted, nItems, nAccepted, epoch,
                 carried, alarm_rules, ingress, nFailures, deleted, recorded,
                 rule_data, message_queue, delivered, lastAdd, evals>>

NextStop ==
  \/ Tick
  \/ Start
  \/ \E p \in OneDevicePayloads : process_sensor_data(p)
  \/ background_processor
  \/ \E w \in 1..MaxWorkers : process_device_alarms(w)
  \/ \E w \in 1..MaxWorkers : EvalGet(w)
  \/ \E w \in 1..MaxWorkers : EvalPublish(w)
  \/ \E w \in 1..MaxWorkers : EvalHistory(w)
  \/ \E w \in 1..MaxWorkers : EvalSave(w)
  \/ stop
  \/ cleanup_old_history

\* operation on the readings of d1 until the service is shut down
SpecStop == Init /\ [][NextStop]_vars

\* -------------------------------------------------------------- rule authoring
\* AlarmCLI.add_simple_alarm and add_conditional_alarm: the operators are
\* parsed, the rule is built and validated, and a valid rule is saved.  ok
\* says whether save_alarm_rule succeeds; a failed save returns False and
\* writes nothing.  The result is what the call returns.
AddRule(rule, operators, ok) ==
  LET result == /\ operators \subseteq ComparisonOperators
                /\ validate(rule)
                /\ ok
  IN  /\ rule_data' = IF result THEN save_alarm_rule(rule_data, rule) ELSE rule_data
      /\ lastAdd' = [called |-> TRUE, rule |-> rule, result |-> result]
      /\ UNCHANGED <<now, running, device_data, processing_queue, executor_queue,
                     workers, alarm_states, alarm_history, emitted, nItems,
                     nAccepted, epoch, carried, lastEval, alarm_rules, ingress,
                     nFailures, deleted, recorded, shutdown, evals,
                     message_queue, delivered>>

add_simple_alarm(rule_id, device_id, sensor_field, operator, threshold, duration, ok) ==
  AddRule([rule_id |-> rule_id, device_id |-> device_id,
           alarm_type |-> "simple_threshold", sensor_field |-> sensor_field,
           threshold_value |-> threshold, comparison_operator |-> operator,
           duration_minutes |-> duration, enabled |-> TRUE,
           shunt_device_id |-> "none", shunt_field |-> "none",
           shunt_value |-> NoneVal, shunt_operator |-> "none"],
          {operator}, ok)

add_conditional_alarm(rule_id, device_id, sensor_field, operator, threshold, duration, shunt_device, shunt_field, shunt_operator, shunt_threshold, ok) ==
  AddRule([rule_id |-> rule_id, device_id |-> device_id,
           alarm_type |-> "conditional_threshold", sensor_field |-> sensor_field,
           threshold_value |-> threshold, comparison_operator |-> operator,
           duration_minutes |-> duration, enabled |-> TRUE,
           shunt_device_id |-> shunt_device, shunt_field |-> shunt_field,
           shunt_value |-> shunt_threshold, shunt_operator |-> shunt_operator],
          {operator, shunt_operator}, ok)

\* what an operator may type: empty and non-empty names, a known and an unknown
\* operator, a zero and a positive duration, and shunt arguments present or not
AuthoredDevices == {"", "d1"}
AuthoredFields == {"", "temperature"}
AuthoredOperators == {">", "=>"}
AuthoredDurations == {0, 1}
AuthoredShuntFields == {"", "current"}
AuthoredShuntOperators == {">", ""}
AuthoredShuntValues == {0, NoneVal}

NextAuthor ==
  \/ \E rule_id \in AuthoredIds, device_id \in AuthoredDevices,
        sensor_field \in AuthoredFields, operator \in AuthoredOperators,
        duration \in AuthoredDurations, ok \in BOOLEAN :
        add_simple_alarm(rule_id, device_id, sensor_field, operator, 30, duration, ok)
  \/ \E rule_id \in AuthoredIds, device_id \in AuthoredDevices,
        sensor_field \in AuthoredFields, operator \in AuthoredOperators,
        duration \in AuthoredDurations, shunt_device \in AuthoredDevices,
        shunt_field \in AuthoredShuntFields,
        shunt_operator \in AuthoredShuntOperators,
        shunt_threshold \in AuthoredShuntValues, ok \in BOOLEAN :
        add_conditional_alarm(rule_id, device_id, sensor_field, operator, 28,
                              duration, shunt_device, shunt_field, shunt_operator,
                              shunt_threshold, ok)

\* the authoring tool at work on the rules table
SpecAuthor == Init /\ [][NextAuthor]_vars

\* ---------------------------------------------------------------- the claims
Range(q) == {q[i] : i \in DOMAIN q}

Busy == {w \in 1..MaxWorkers : workers[w].pc # "idle"}

\* a pool thread is between get_alarm_state and save_alarm_state of rule r
InEvaluation(w, r) ==
  /\ workers[w].pc \in {"shunt", "publish", "history", "save"}
  /\ Head(workers[w].todo) = r

\* the task of pool thread w has read the state row of rule r / is through with r
StartedRule(w, r) ==
  \/ r \notin Range(workers[w].todo)
  \/ Head(workers[w].todo) = r /\ workers[w].pc # "get"

CompletedRule(w, r) == r \notin Range(workers[w].todo)

\* the last step ended an evaluation that got past the sensor value
Evaluated == lastEval.rule_id # "none" /\ lastEval.sensor # NoneVal

\* the in-memory state the evaluation started from
EvalFrom == state_or_new(lastEval.pre)

EvalDuration == Rules[lastEval.rule_id].duration_minutes * SecondsPerMinute

\* C1: for every rule and every violation episode (rule_id, violation_start), at
\* most one alarm goes through the alarm callback and at most one history record
\* is appended, whatever the interleaving of the evaluations in the pool.
C1_AtMostOneAlarmPerEpisode ==
  epoch = 0 =>
    /\ \A i, j \in DOMAIN emitted :
         (/\ emitted[i].rule_id = emitted[j].rule_id
          /\ emitted[i].violation_start = emitted[j].violation_start) => i = j
    /\ \A i, j \in DOMAIN alarm_history :
         (/\ alarm_history[i].rule_id = alarm_history[j].rule_id
          /\ alarm_history[i].violation_start = alarm_history[j].violation_start)
         => i = j

\* C2: no two pool threads are at the same time between the read and the write
\* of the state row of one rule.
C2_NoConcurrentEvaluationOfARule ==
  \A w1, w2 \in 1..MaxWorkers : \A r \in RuleIds :
    (InEvaluation(w1, r) /\ InEvaluation(w2, r)) => w1 = w2

\* C3: if item A of a device was accepted before item B, each matching rule has
\* completed its evaluation against A before its evaluation against B starts.
C3_PerRuleArrivalOrder ==
  \A w1, w2 \in Busy :
    (/\ workers[w1].item.device_id = workers[w2].item.device_id
     /\ workers[w1].item.seq < workers[w2].item.seq)
    => \A r \in Range(rules_to_evaluate(workers[w1].item.device_id)) :
         StartedRule(w2, r) => CompletedRule(w1, r)

\* C4: while every condition-true evaluation of an episode happens less than the
\* rule's duration after violation_start, no alarm is emitted, no history record
\* is appended and the status does not become triggered: every alarm, every
\* history record and every triggered row is at least the duration after the
\* violation_start it names, and a condition-true evaluation earlier than that
\* emits nothing and leaves the row active.
C4_NoAlarmBeforeDuration ==
  /\ \A i \in DOMAIN emitted :
       emitted[i].trigger_time - emitted[i].violation_start
         >= Rules[emitted[i].rule_id].duration_minutes * SecondsPerMinute
  /\ \A i \in DOMAIN alarm_history :
       alarm_history[i].trigger_time - alarm_history[i].violation_start
         >= Rules[alarm_history[i].rule_id].duration_minutes * SecondsPerMinute
  /\ \A r \in RuleIds :
       alarm_states[r].status = "triggered" =>
         alarm_states[r].trigger_time - alarm_states[r].violation_start
           >= Rules[r].duration_minutes * SecondsPerMinute
  /\ (/\ Evaluated /\ lastEval.cond
      /\ EvalFrom.status \in {"inactive", "active"}
      /\ lastEval.ct - (IF EvalFrom.status = "active" THEN EvalFrom.violation_start
                        ELSE lastEval.ct) < EvalDuration)
     => /\ lastEval.emits = 0
        /\ lastEval.hists = 0
        /\ lastEval.after.status = "active"

\* an episode is continued by a second condition-true evaluation before the
\* duration has passed
C4_Witness ==
  /\ Evaluated /\ lastEval.cond
  /\ lastEval.pre.status = "active"
  /\ lastEval.pre.violation_count >= 1
  /\ lastEval.ct - lastEval.pre.violation_start < EvalDuration
  /\ lastEval.after.status = "active"
  /\ lastEval.emits = 0

\* C5: a condition-true evaluation of an active rule at which
\* now - violation_start >= duration (equality included) sets the status to
\* triggered with trigger_time = now and emits exactly one alarm (and one history
\* record), whose reported violation duration is at least duration_minutes.
C5_FiresAtDuration ==
  /\ (/\ Evaluated /\ lastEval.cond
      /\ EvalFrom.status = "active"
      /\ lastEval.ct - EvalFrom.violation_start >= EvalDuration)
     => /\ lastEval.after.status = "triggered"
        /\ lastEval.after.trigger_time = lastEval.ct
        /\ lastEval.after.violation_start = EvalFrom.violation_start
        /\ lastEval.emits = 1
        /\ lastEval.hists = 1
        /\ \E i \in DOMAIN emitted :
             /\ emitted[i].rule_id = lastEval.rule_id
             /\ emitted[i].trigger_time = lastEval.ct
             /\ emitted[i].violation_start = EvalFrom.violation_start
  /\ \A i \in DOMAIN emitted :
       emitted[i].violation_duration >= emitted[i].duration_minutes * SecondsPerMinute

\* the alarm fires at exactly violation_start + duration
C5_Witness ==
  /\ Evaluated /\ lastEval.cond
  /\ lastEval.pre.status = "active"
  /\ lastEval.ct - lastEval.pre.violation_start = EvalDuration
  /\ lastEval.after.status = "triggered"
  /\ lastEval.emits = 1

\* C6: a condition-false evaluation of a rule whose status is active or triggered
\* leaves the persisted row inactive with violation_start and last_violation null
\* and violation_count 0.
C6_FalseClearsEpisode ==
  (/\ Evaluated /\ ~lastEval.cond
   /\ lastEval.pre.status \in {"active", "triggered"})
  => /\ alarm_states[lastEval.rule_id] = lastEval.after
     /\ lastEval.after.status = "inactive"
     /\ lastEval.after.violation_start = NoneVal
     /\ lastEval.after.last_violation = NoneVal
     /\ lastEval.after.violation_count = 0

C6_Witness ==
  /\ Evaluated /\ ~lastEval.cond
  /\ lastEval.pre.status = "triggered"
  /\ lastEval.pre.violation_count >= 1
  /\ alarm_states[lastEval.rule_id].status = "inactive"

C8_MissingShuntIsFalse ==
  (/\ Evaluated
   /\ Rules[lastEval.rule_id].alarm_type = "conditional_threshold"
   /\ lastEval.seen \in {"absent", "nofield"})
  => /\ ~lastEval.cond
     /\ lastEval.emits = 0
     /\ lastEval.hists = 0
     /\ lastEval.after.status = "inactive"
     /\ lastEval.after.violation_start = NoneVal
     /\ lastEval.after.violation_count = 0

\* an active conditional rule whose primary predicate holds is cleared because the
\* shunt entry is missing
C8_Witness ==
  /\ Evaluated
  /\ Rules[lastEval.rule_id].alarm_type = "conditional_threshold"
  /\ lastEval.seen \in {"absent", "nofield"}
  /\ lastEval.pre.status = "active"
  /\ evaluate_condition(lastEval.sensor, Rules[lastEval.rule_id].threshold_value,
                        Rules[lastEval.rule_id].comparison_operator)
  /\ lastEval.after.status = "inactive"

\* C9: an evaluation of a conditional rule whose shunt cache entry is older than
\* shunt_freshness_seconds has condition false.
C9_StaleShuntIsUnknown ==
  (/\ Evaluated
   /\ Rules[lastEval.rule_id].alarm_type = "conditional_threshold"
   /\ lastEval.seen = "value"
   /\ lastEval.age > ShuntFreshnessSeconds)
  => ~lastEval.cond

\* C10: a disabled rule is inert: it is never evaluated, it has no state row, and
\* no alarm and no history record names it.
C10_DisabledRuleIsInert ==
  \A r \in RuleIds :
    ~Rules[r].enabled =>
      /\ alarm_states[r] = NoRow
      /\ \A w \in 1..MaxWorkers : r \notin Range(workers[w].todo)
      /\ lastEval.rule_id # r
      /\ \A i \in DOMAIN emitted : emitted[i].rule_id # r
      /\ \A i \in DOMAIN alarm_history : alarm_history[i].rule_id # r

\* violating readings of d1 for the full duration fire the enabled rule R1 while
\* the disabled rule R3 on the same device and field has no row
C10_Witness ==
  /\ alarm_states["R1"].status = "triggered"
  /\ ~Rules["R3"].enabled
  /\ Rules["R3"].device_id = Rules["R1"].device_id
  /\ alarm_states["R3"] = NoRow
  /\ \E i \in DOMAIN emitted : emitted[i].rule_id = "R1"

\* C11: process_sensor_data never waits for queue space: no transport worker is
\* inside Queue.put while the intake queue is full, whatever the interleaving of
\* the transport workers and the dispatcher.
C11_ProducerNeverBlocks ==
  \A i \in 1..MaxIngress :
    ingress[i].pc = "put" => ~queue_full(processing_queue)

\* an item the processor holds: queued, submitted, or under evaluation
InFlight ==
  Range(processing_queue) \cup Range(executor_queue)
    \cup {workers[w].item : w \in Busy}

\* the step is a call of process_sensor_data that drops its item
DropStep == nItems' = nItems + 1 /\ nAccepted' = nAccepted

C13_DeleteRemovesRuleAndState ==
  /\ [](\A r \in deleted : get_alarm_rule(alarm_rules, r) = NoRule)
  /\ [][\A r \in RuleIds :
          (r \notin deleted /\ r \in deleted')
          => /\ get_alarm_rule(alarm_rules', r) = NoRule
             /\ get_alarm_state(alarm_states', r) = NoRow]_vars

\* a rule that had fired is deleted: its rule row and its triggered state row
\* are both gone while its history record remains
C13_Witness ==
  /\ "R1" \in deleted
  /\ Busy = {}
  /\ get_alarm_rule(alarm_rules, "R1") = NoRule
  /\ get_alarm_state(alarm_states, "R1") = NoRow
  /\ \E i \in DOMAIN alarm_history : alarm_history[i].rule_id = "R1"

\* pool thread w has appended the history record of episode e and has not yet
\* saved the state row
BetweenHistoryAndSave(w, e) ==
  /\ workers[w].pc = "save"
  /\ workers[w].hists = 1
  /\ Episode(Head(workers[w].todo), workers[w].st) = e

\* C14: the history record of an episode exists if and only if a state row has
\* been persisted that records the episode as triggered, in every store state
\* outside a firing evaluation and also after a crash inside one.
C14_HistoryIffTriggeredRow ==
  /\ \A i \in DOMAIN alarm_history :
       \/ Episode(alarm_history[i].rule_id, alarm_history[i]) \in recorded
       \/ \E w \in 1..MaxWorkers :
            BetweenHistoryAndSave(w, Episode(alarm_history[i].rule_id, alarm_history[i]))
  /\ \A e \in recorded :
       \E i \in DOMAIN alarm_history :
         Episode(alarm_history[i].rule_id, alarm_history[i]) = e

\* C15: an evaluation in which the read of the state row or a store write
\* failed leaves the persisted state row of its rule as it was.
C15_FailedEvaluationKeepsRow ==
  (/\ lastEval.rule_id # "none"
   /\ lastEval.failed \in {"get", "history", "save"})
  => lastEval.after = lastEval.before

\* the rules of the device that come after rule r in the loop over the rules
RulesAfter(device_id, r) ==
  LET rules == rules_to_evaluate(device_id)
      k == CHOOSE i \in DOMAIN rules : rules[i] = r
  IN  SubSeq(rules, k + 1, Len(rules))

\* C16: when an evaluation in which an operation failed ends, the loop over the
\* rules of the device goes on: the pool thread that ran it holds the same item
\* and is about to evaluate every enabled rule of the device that comes after
\* the failed one; and the dispatcher keeps running.
C16_ErrorDoesNotAbortSiblings ==
  /\ (/\ lastEval.rule_id # "none"
      /\ lastEval.failed # "none"
      /\ lastEval.rule_id \in alarm_rules
      /\ RulesAfter(Rules[lastEval.rule_id].device_id, lastEval.rule_id) # <<>>)
     => \E w \in 1..MaxWorkers :
          /\ workers[w].pc = "get"
          /\ workers[w].item.seq = lastEval.seq
          /\ workers[w].todo =
               RulesAfter(Rules[lastEval.rule_id].device_id, lastEval.rule_id)
  /\ nFailures > 0 => running

\* the evaluation of R1 for an item ended with a failed save_alarm_state and the
\* same task is about to evaluate R4 for that item
C16_Witness ==
  /\ lastEval.rule_id = "R1"
  /\ lastEval.failed = "save"
  /\ \E w \in 1..MaxWorkers :
       /\ workers[w].pc = "get"
       /\ workers[w].item.seq = lastEval.seq
       /\ workers[w].todo = <<"R4">>

\* C17: an evaluation against an item that lacks the rule's sensor_field is a
\* no-op whatever the status: it writes no state row (the row of the rule is
\* what it was before the evaluation ended), emits no alarm and appends no
\* history record.
C17_MissingFieldIsNoOp ==
  (/\ lastEval.rule_id # "none"
   /\ lastEval.sensor = NoneVal)
  => /\ alarm_states[lastEval.rule_id] = lastEval.before
     /\ lastEval.after = lastEval.before
     /\ lastEval.emits = 0
     /\ lastEval.hists = 0

\* a triggered rule is evaluated against an item without its sensor field and
\* stays triggered, with its violation_start, last_violation and violation_count
C17_Witness ==
  /\ lastEval.rule_id # "none"
  /\ lastEval.sensor = NoneVal
  /\ lastEval.pre.status = "triggered"
  /\ alarm_states[lastEval.rule_id] = lastEval.pre
  /\ lastEval.pre.violation_count >= 1

\* C18: an evaluation against an item whose sensor_field value is not a number
\* does not mutate the state: an active or triggered episode keeps its status
\* and violation_start, an inactive rule does not become active, and nothing is
\* emitted.
C18_NonNumericIsNoOp ==
  (/\ lastEval.rule_id # "none"
   /\ lastEval.failed = "none"
   /\ lastEval.sensor = NotANumber)
  => /\ lastEval.pre.status \in {"active", "triggered"}
          => /\ lastEval.after.status = lastEval.pre.status
             /\ lastEval.after.violation_start = lastEval.pre.violation_start
             /\ lastEval.after.violation_count = lastEval.pre.violation_count
     /\ EvalFrom.status = "inactive" => lastEval.after.status # "active"
     /\ lastEval.emits = 0

\* C19: an evaluation whose alarm could not be published (the callback raised
\* or the transport was disconnected) still appends its history record and
\* persists the rule's state row as triggered.
C19_PublishFailureKeepsTransition ==
  (/\ lastEval.rule_id # "none"
   /\ lastEval.failed = "publish")
  => /\ lastEval.emits = 0
     /\ lastEval.hists = 1
     /\ lastEval.after.status = "triggered"
     /\ lastEval.after.trigger_time = lastEval.ct
     /\ alarm_states[lastEval.rule_id] = lastEval.after
     /\ \E i \in DOMAIN alarm_history :
          Episode(alarm_history[i].rule_id, alarm_history[i])
            = Episode(lastEval.rule_id, lastEval.after)

\* the alarm of an active rule that reached its duration was not published, yet
\* the row is triggered and the history has the record
C19_Witness ==
  /\ lastEval.rule_id # "none"
  /\ lastEval.failed = "publish"
  /\ lastEval.pre.status = "active"
  /\ alarm_states[lastEval.rule_id].status = "triggered"
  /\ emitted = <<>>
  /\ Len(alarm_history) = 1

\* C20: in every persisted state row, status = inactive exactly when
\* violation_start is null and violation_count is 0.
C20_InactiveIffNoEpisode ==
  \A r \in RuleIds :
    alarm_states[r] # NoRow =>
      (alarm_states[r].status = "inactive"
         <=> (/\ alarm_states[r].violation_start = NoneVal
              /\ alarm_states[r].violation_count = 0))

\* the row of R1 is inactive again after an episode was cleared, while the row
\* of R2 is in an episode
C20_Witness ==
  /\ alarm_states["R1"].status = "inactive"
  /\ alarm_states["R1"].last_value # NoneVal
  /\ alarm_states["R1"].violation_start = NoneVal
  /\ alarm_states["R2"].status = "active"
  /\ alarm_states["R2"].violation_count = 1

\* C21: in every persisted state row in which violation_start, last_violation
\* and trigger_time are all non-null, violation_start <= last_violation <=
\* trigger_time.
C21_TimestampsOrdered ==
  \A r \in RuleIds :
    (/\ alarm_states[r] # NoRow
     /\ alarm_states[r].violation_start # NoneVal
     /\ alarm_states[r].last_violation # NoneVal
     /\ alarm_states[r].trigger_time # NoneVal)
    => /\ alarm_states[r].violation_start <= alarm_states[r].last_violation
       /\ alarm_states[r].last_violation <= alarm_states[r].trigger_time

Present(x) == x # "" /\ x # "none"

\* the rule is what the authoring boundary may let through
WellFormed(rule) ==
  /\ Present(rule.rule_id) /\ Present(rule.device_id) /\ Present(rule.sensor_field)
  /\ rule.duration_minutes > 0
  /\ rule.alarm_type = "conditional_threshold" =>
       /\ Present(rule.shunt_device_id) /\ Present(rule.shunt_field)
       /\ rule.shunt_value # NoneVal
       /\ rule.shunt_operator \in ComparisonOperators

\* C23: after any add-simple or add-conditional call the rules table contains
\* the rule only if its rule_id, device_id and sensor_field are non-empty, its
\* duration_minutes is > 0 and, for a conditional rule, its four shunt fields
\* are present; and a call that is rejected leaves the rules table unchanged.
C23_InvalidRuleIsRejected ==
  /\ [](\A id \in AuthoredIds :
          rule_data[id] # NoRule =>
            /\ rule_data[id].rule_id = id
            /\ WellFormed(rule_data[id]))
  /\ [](lastAdd.called =>
          /\ ~WellFormed(lastAdd.rule) =>
                /\ ~lastAdd.result
                /\ \A id \in AuthoredIds : rule_data[id] # lastAdd.rule
          /\ lastAdd.result => rule_data[lastAdd.rule.rule_id] = lastAdd.rule)
  /\ [][(lastAdd'.called /\ ~lastAdd'.result) => rule_data' = rule_data]_vars

\* a conditional rule without a shunt field is rejected while the table holds
\* the valid rule R5 written before, which stays as it was
C23_Witness ==
  /\ lastAdd.called /\ ~lastAdd.result
  /\ lastAdd.rule.rule_id = "R5"
  /\ lastAdd.rule.alarm_type = "conditional_threshold"
  /\ lastAdd.rule.shunt_field = ""
  /\ lastAdd.rule.duration_minutes > 0 /\ Present(lastAdd.rule.device_id)
  /\ rule_data["R5"] # NoRule
  /\ rule_data["R5"].alarm_type = "simple_threshold"

\* C24: once AlarmProcessor.stop has returned no evaluation task is running
\* or waiting in the pool, and no step after it writes a state row, appends a
\* history record or emits an alarm (in particular not while or after the
\* history cleanup runs).
C24_StopDrainsEvaluations ==
  /\ [](shutdown # "no" => (Busy = {} /\ executor_queue = <<>>))
  /\ [][shutdown # "no" =>
          /\ UNCHANGED <<alarm_states, emitted>>
          /\ Len(alarm_history') <= Len(alarm_history)]_vars

\* the evaluation the last step ended wrote over the very row it had read: no
\* other write of the row came in between
Uninterrupted == lastEval.pre = lastEval.before

\* C25: violation_count is the number of condition-true evaluations of the
\* current episode: a condition-true evaluation of an inactive rule persists
\* count 1, and every further condition-true evaluation of the episode, while
\* active and after the rule is triggered, persists the count it read plus 1.
C25_CountIsConfirmingEvaluations ==
  (/\ Evaluated /\ lastEval.cond /\ Uninterrupted
   /\ EvalFrom.status \in {"inactive", "active", "triggered"})
  => lastEval.after.violation_count =
       IF EvalFrom.status = "inactive" THEN 1 ELSE EvalFrom.violation_count + 1

\* the status changes a single evaluation may make
StatusSteps ==
  { <<"inactive", "active">>, <<"active", "triggered">>,
    <<"active", "inactive">>, <<"triggered", "inactive">> }

\* an evaluation's view of its rule: the status it read and the status it wrote
C26_StatusStepsAllowed ==
  Evaluated =>
    \/ lastEval.after.status = EvalFrom.status
    \/ <<EvalFrom.status, lastEval.after.status>> \in StatusSteps

\* a condition-true evaluation that reads a triggered row emits nothing and
\* changes last_violation and the last values only
C26_TriggeredIsPureUpdate ==
  (Evaluated /\ lastEval.cond /\ EvalFrom.status = "triggered")
  => /\ lastEval.emits = 0
     /\ lastEval.hists = 0
     /\ lastEval.after = [EvalFrom EXCEPT !.last_violation = lastEval.ct,
                                          !.last_value = lastEval.sensor,
                                          !.last_shunt_value = lastEval.after.last_shunt_value]

\* C26: a single evaluation changes the status only along inactive->active,
\* active->triggered, active->inactive and triggered->inactive; a
\* condition-true evaluation of a triggered rule only updates last_violation
\* and the last values; and a rule fires a second time only after an
\* evaluation has set its status to inactive: no evaluation fires for a rule
\* whose row is triggered at the moment the firing evaluation writes it.
C26_RefireOnlyThroughInactive ==
  /\ C26_StatusStepsAllowed
  /\ C26_TriggeredIsPureUpdate
  /\ (lastEval.rule_id # "none" /\ lastEval.emits >= 1)
       => lastEval.before.status # "triggered"

\* C27: a condition-true evaluation of a rule whose status is acknowledged
\* only updates last_violation: the status stays acknowledged, violation_start
\* and trigger_time stay, no alarm is emitted and no history record is
\* appended, however long the violation has lasted.
C27_AcknowledgedDoesNotRefire ==
  (/\ Evaluated /\ lastEval.cond
   /\ lastEval.pre.status = "acknowledged")
  => /\ lastEval.after.status = "acknowledged"
     /\ lastEval.after.last_violation = lastEval.ct
     /\ lastEval.after.violation_start = lastEval.pre.violation_start
     /\ lastEval.after.trigger_time = lastEval.pre.trigger_time
     /\ lastEval.emits = 0
     /\ lastEval.hists = 0

\* C28: a condition-false evaluation of a rule whose status is acknowledged
\* persists the row as inactive, with violation_start and last_violation null
\* and violation_count 0.
C28_AcknowledgedClearsOnFalse ==
  (/\ Evaluated /\ ~lastEval.cond
   /\ lastEval.pre.status = "acknowledged")
  => /\ lastEval.after.status = "inactive"
     /\ lastEval.after.violation_start = NoneVal
     /\ lastEval.after.last_violation = NoneVal
     /\ lastEval.after.violation_count = 0

\* the items accepted so far
AcceptedItems == {k \in 1..MaxItems : evals[k].device_id # "none"}

\* the rules an accepted item is to be evaluated against
RulesOfItem(k) ==
  {r \in alarm_rules : Rules[r].enabled /\ Rules[r].device_id = evals[k].device_id}

\* item k has been evaluated once against each enabled rule of its device and
\* against no other rule
EvaluatedOnce(k) ==
  \A r \in RuleIds : evals[k].n[r] = IF r \in RulesOfItem(k) THEN 1 ELSE 0

\* C29: every item accepted into the intake queue is eventually evaluated
\* exactly once against each enabled rule of its device: at no time has an
\* item been evaluated twice against a rule, or against a rule of another
\* device or a disabled rule, and again and again a state is reached in which
\* every item accepted so far has had each of its evaluations (an evaluation
\* once had stays had, so each accepted item gets there).
C29_AcceptedItemEvaluatedOnce ==
  /\ [](\A k \in AcceptedItems : \A r \in RuleIds :
          evals[k].n[r] <= (IF r \in RulesOfItem(k) THEN 1 ELSE 0))
  /\ []<>(\A k \in AcceptedItems : EvaluatedOnce(k))

\* three items, of d1 and of d2, have each been evaluated once against the
\* enabled rule of their device, and the row of each rule is written
C29_Witness ==
  /\ AcceptedItems = 1..MaxItems
  /\ \A k \in AcceptedItems : EvaluatedOnce(k)
  /\ \E k \in AcceptedItems : evals[k].device_id = "d1" /\ evals[k].n["R1"] = 1
  /\ \E k \in AcceptedItems : evals[k].device_id = "d2" /\ evals[k].n["R2"] = 1
  /\ alarm_states["R1"] # NoRow /\ alarm_states["R2"] # NoRow

\* C30: the state updates of a rule are serialized in acceptance order: an
\* evaluation writes over the very row it read (no lost update, no write
\* based on a stale read), and when the evaluation of an item against a rule
\* ends, every item of the device accepted before it has been evaluated
\* against that rule; so the row left when all items are processed is the
\* transition table applied to the items one at a time.
C30_RuleUpdatesSerialized ==
  (lastEval.rule_id # "none" /\ epoch = 0)
  => /\ Evaluated => Uninterrupted
     /\ \A k \in 1..MaxItems :
          (/\ k < lastEval.seq
           /\ evals[k].device_id = Rules[lastEval.rule_id].device_id)
          => evals[k].n[lastEval.rule_id] >= 1

\* the attempts the design gives a store operation that fails transiently
\* (store-transient: retried with bounded backoff, 3 attempts)
StoreAttempts == 3

\* C33: a store operation that fails transiently is tried up to three times:
\* an evaluation in which a store operation reported failure has tried that
\* operation three times.
C33_TransientFailureIsRetried ==
  (/\ lastEval.rule_id # "none"
   /\ lastEval.failed \in {"get", "history", "save"})
  => lastEval.attempts = StoreAttempts

\* C35: a condition-false evaluation of a rule that is inactive or has no state
\* row changes nothing: the state row of the rule, if there is one, is after
\* the evaluation what it was before, no row is created, no history record is
\* appended and no alarm is emitted.
C35_InactiveFalseChangesNothing ==
  (/\ Evaluated /\ ~lastEval.cond /\ Uninterrupted
   /\ lastEval.pre.status \in {"norow", "inactive"})
  => /\ lastEval.after = lastEval.before
     /\ alarm_states[lastEval.rule_id] = lastEval.before
     /\ lastEval.emits = 0
     /\ lastEval.hists = 0

\* C38: every entry of the telemetry cache is a reading that was accepted into
\* the intake queue: the call of process_sensor_data that drops its item at a
\* full queue leaves the cache as it was, so the dropped reading is never the
\* cached reading of its device.
C38_CacheHoldsAcceptedReadings ==
  [][DropStep => UNCHANGED device_data]_vars

\* C40: whenever an evaluation has emitted an alarm for a rule, the persisted
\* state row of the rule has status triggered when the evaluation ends (also
\* when its state write failed), so that the next evaluation reads triggered.
C40_EmittedAlarmLeavesTriggeredRow ==
  (lastEval.rule_id # "none" /\ lastEval.emits >= 1)
  => /\ lastEval.after.status = "triggered"
     /\ alarm_states[lastEval.rule_id].status = "triggered"

\* no pool thread is evaluating rule r or has it still to evaluate
NotInFlight(r) == \A w \in 1..MaxWorkers : r \notin Range(workers[w].todo)

\* C32: states are destroyed with their rule: whenever a rule has no row in
\* the rules table and no evaluation of it is in flight, there is no state row
\* of that rule, however delete_alarm_rule interleaved with the evaluations.
C32_NoStateRowWithoutRule ==
  \A r \in RuleIds :
    (r \notin alarm_rules /\ NotInFlight(r)) => alarm_states[r] = NoRow

\* C37: the work items still in the intake queue when the processor is stopped
\* are discarded: once stop has returned an item in the intake queue has had no
\* evaluation and is neither submitted to the pool nor running in it, and no
\* step takes an item from the intake queue or submits one to the pool.
C37_QueuedItemsDiscardedAtStop ==
  /\ [](shutdown # "no" =>
          \A it \in Range(processing_queue) :
            /\ \A r \in RuleIds : evals[it.seq].n[r] = 0
            /\ it \notin Range(executor_queue)
            /\ \A w \in Busy : workers[w].item # it)
  /\ [][shutdown # "no" =>
          /\ \A it \in Range(processing_queue) : it \in Range(processing_queue')
          /\ Len(executor_queue') <= Len(executor_queue)]_vars

\* the service was stopped and its history cleaned with two readings still in
\* the intake queue: the reading taken before the stop was evaluated and wrote
\* the state row, the two others have had no evaluation and stay queued
C37_Witness ==
  /\ shutdown = "cleaned"
  /\ Len(processing_queue) = 2
  /\ Busy = {} /\ executor_queue = <<>>
  /\ evals[1].n["R1"] = 1
  /\ alarm_states["R1"] # NoRow
  /\ \A it \in Range(processing_queue) : evals[it.seq].n["R1"] = 0

\* the clock values from now on
LaterTimes == {t \in {k * TickSeconds : k \in 0..MaxTicks} : t >= now}

\* The same telemetry item evaluated once more at time t2, right after the
\* evaluation the last step ended: _evaluate_alarm_rule reads the row that
\* evaluation left, finds the same sensor value and the same shunt reading and
\* so the same condition, and decides.
Reevaluated(t2) ==
  apply_condition(Rules[lastEval.rule_id], state_or_new(lastEval.after),
                  lastEval.cond, t2, lastEval.sensor, lastEval.shunt_value)

\* the second evaluation emits nothing and leaves every field of the state but
\* last_violation and violation_count as the first left it
SameState(a, d) ==
  /\ ~d.fire
  /\ d.st.status = a.status
  /\ d.st.violation_start = a.violation_start
  /\ d.st.trigger_time = a.trigger_time
  /\ d.st.last_value = a.last_value
  /\ d.st.last_shunt_value = a.last_shunt_value

\* the evaluation the last step ended read the row an evaluation of an equal
\* sensor value had written, in an episode
SecondOfSameValue ==
  /\ Evaluated /\ lastEval.cond /\ Uninterrupted
  /\ lastEval.pre.status \in {"active", "triggered"}
  /\ lastEval.pre.last_value = lastEval.sensor

C39_ShuntFromSameItem ==
  (/\ Evaluated
   /\ Rules[lastEval.rule_id].alarm_type = "conditional_threshold"
   /\ Rules[lastEval.rule_id].shunt_device_id = Rules[lastEval.rule_id].device_id)
  => /\ lastEval.sensor = Field(lastEval.item, Rules[lastEval.rule_id].sensor_field)
     /\ lastEval.shunt_value = Field(lastEval.item, Rules[lastEval.rule_id].shunt_field)

\* the transport has nothing in hand: every delivered message has been taken
\* and every worker thread is back in its loop
TransportQuiet ==
  /\ message_queue = <<>>
  /\ \A i \in 1..MaxIngress : ingress[i].pc = "idle"

\* the delivered messages the decoder forwards as readings of device d
ForwardedTo(d) ==
  {k \in DOMAIN delivered : extract_device_id(delivered[k].topic) = d}

Latest(idx) == CHOOSE k \in idx : \A j \in idx : j <= k

\* C31: the telemetry cache holds the most recent reading of each device:
\* once the worker threads have handled all delivered messages, the cache
\* entry of a device holds the fields of the message for that device the
\* transport delivered last, whatever the interleaving of the worker threads.
C31_CacheHoldsLastDelivered ==
  TransportQuiet =>
    \A d \in Devices :
      ForwardedTo(d) # {} =>
        /\ device_data[d].present
        /\ device_data[d].temperature = delivered[Latest(ForwardedTo(d))].temperature
        /\ device_data[d].current = delivered[Latest(ForwardedTo(d))].current

\* the topic has the form sensors/<device_id>/data
TopicMatches(topic) ==
  /\ Len(topic) = 3
  /\ topic[1] = "sensors"
  /\ Truthy(topic[2])
  /\ topic[3] = "data"

SensorMessages == {k \in DOMAIN delivered : TopicMatches(delivered[k].topic)}

\* C36: the decoder forwards a message only if its topic has the form
\* sensors/<device_id>/data, with the second level as device id: a worker
\* thread is inside process_sensor_data only with such a message, the
\* processor has been called at most once per such message, and every cache
\* entry holds the fields of such a message for its device.
C36_OnlySensorTopicsForwarded ==
  /\ \A i \in 1..MaxIngress :
       ingress[i].pc # "idle" =>
         /\ TopicMatches(ingress[i].topic)
         /\ ingress[i].item.device_id = ingress[i].topic[2]
  /\ nItems <= Cardinality(SensorMessages)
  /\ \A d \in Devices :
       device_data[d].present =>
         \E k \in SensorMessages :
           /\ delivered[k].topic[2] = d
           /\ delivered[k].temperature = device_data[d].temperature
           /\ delivered[k].current = device_data[d].current

====
